---- MODULE Spec2Model ----
(***************************************************************************)
(* Request execution, error classification and retry loop of the Voyage AI *)
(* client.  The repository holds two versions of the pipeline: the one in  *)
(* src/client.go (handleAPIRequest / classifyError / executeRequest over   *)
(* an APIError carrying StatusCode and Response) and the one in            *)
(* src/unnamed/part_000 (a single handleAPIRequest loop over an APIError   *)
(* carrying Detail, see src/unnamed/part_002).  The variable impl says     *)
(* which of the two a client runs; everything else is common.              *)
(*                                                                         *)
(* Spec     one call at a time through the retry loop.                     *)
(* SpecLive Spec for one client, with the running call making progress.    *)
(* SpecWire the request body of one call: built from the caller's options, *)
(*          marshalled by json.Marshal, unmarshalled by the receiver.      *)
(* SpecConc several calls in flight on one client built with MaxRetries 0, *)
(*          stepping through their accesses to c.opts.MaxRetries.          *)
(***************************************************************************)
EXTENDS Integers, Sequences, FiniteSets, TLC

\* Largest configured VoyageClientOpts.MaxRetries the model explores.
MaxN == 3

\* Calls in flight at once on one client (SpecConc).
NumCallers == 2

VARIABLES
    impl,          \* which source file's pipeline the client runs
    configured,    \* VoyageClientOpts.MaxRetries as passed to NewClient
    optsKey,       \* VoyageClientOpts.Key as passed to NewClient
    envKey,        \* the value of VOYAGE_API_KEY when NewClient ran
    apikey,        \* c.apikey
    optsMaxRetries, \* c.opts.MaxRetries, the shared configuration field
    op,            \* the exported method in progress, "none" between calls
    pc,            \* "idle" | "loop" | "done"
    input,         \* what the call was given (see Inputs)
    maxRetries,    \* the loop bound, evaluated once when the loop starts
    i,             \* the loop index of handleAPIRequest
    attempts,      \* loop bodies entered by this call
    hist,          \* one entry per transport invocation of this call
    outcome,       \* what the latest loop body met (see Outcomes)
    attemptErr,    \* the error the latest loop body ended with
    verdict,       \* the latest answer of handleAPIError
    lastErr,       \* handleAPIRequest's lastErr (client.go)
    respBody,      \* the caller's response value, written by json.Unmarshal
    bodies,        \* response bodies of this call: obtained, read, closed
    err,           \* the error returned to the caller
    wpc,           \* SpecWire: "start" | "built" | "sent" | "received"
    wKind,         \* SpecWire: the exported method that builds the request
    wOpts,         \* SpecWire: the opts pointer the caller passed
    wValue,        \* SpecWire: the value the caller gave to Multimodal
    wReq,          \* SpecWire: reqBody as the method built it
    wBody,         \* SpecWire: the JSON document json.Marshal produced
    wBack,         \* SpecWire: the request the receiver unmarshalled
    callPc,        \* SpecConc: each call's position
    callOp,        \* SpecConc: each call's exported method
    callMax,       \* SpecConc: each call's loop bound
    callAttempts   \* SpecConc: each call's attempts

\* The client as constructed: nothing below writes these.
clientVars == <<impl, configured, optsKey, envKey, apikey>>

\* The state of the one call of Spec.
loopVars == <<op, pc, input, maxRetries, i, attempts, hist, outcome, attemptErr,
              verdict, lastErr, respBody, bodies, err>>

wireVars == <<wpc, wKind, wOpts, wValue, wReq, wBody, wBack>>

callerVars == <<callPc, callOp, callMax, callAttempts>>

vars == <<clientVars, optsMaxRetries, op, pc, input, maxRetries, i, attempts,
          hist, outcome, attemptErr, verdict, lastErr, respBody, bodies, err,
          wireVars, callerVars>>

Callers == 1 .. NumCallers

Impls == {"client.go", "part_000"}

\* Values of VoyageClientOpts.Key and of the environment variable; "" is unset.
Keys == {"", "APIKEY"}

EnvKeys == {"", "dummy_key"}

MaxRetriesValues == {0 - 1} \cup (0 .. MaxN)

\* Status codes the endpoint answers with; 304 is one below 400 outside 2xx
\* that http.Client hands back as it is.
Statuses == {200, 201, 304, 400, 401, 404, 422, 429, 500}

\* Response bodies: two well-formed response objects, a well-formed error
\* object {detail}, an object with a response field of the wrong JSON type,
\* and bytes that are not JSON.
\*   json    - the bytes are valid JSON
\*   typed   - every field fits the type of the response field it names
\*   payload - the response fields json.Unmarshal can store ("" = none)
\*   detail  - the value of its "detail" field ("" = absent)
\*   raw     - the bytes themselves
Bodies ==
    { [json |-> TRUE,  typed |-> TRUE,  payload |-> "embA", detail |-> "",
       raw |-> "{data:embA}"],
      [json |-> TRUE,  typed |-> TRUE,  payload |-> "embB", detail |-> "",
       raw |-> "{data:embB}"],
      [json |-> TRUE,  typed |-> TRUE,  payload |-> "",     detail |-> "d1",
       raw |-> "{detail:d1}"],
      [json |-> TRUE,  typed |-> FALSE, payload |-> "model", detail |-> "",
       raw |-> "{model:m,data:7}"],
      [json |-> FALSE, typed |-> FALSE, payload |-> "",     detail |-> "",
       raw |-> "<html>"] }

NoBody == [json |-> FALSE, typed |-> FALSE, payload |-> "", detail |-> "", raw |-> ""]

\* The zero value of EmbeddingResponse / RerankResponse.
ZeroResp == ""

\* error values: kind names where the error comes from, text the message
\* prefix, status the APIError's StatusCode, detail the formatted detail.
NoErr == [kind |-> "nil", status |-> 0, text |-> "", detail |-> ""]

Error(kind, text) == [kind |-> kind, status |-> 0, text |-> text, detail |-> ""]

\* &APIError{StatusCode: status, Response: body}
APIErrorOf(status, body) ==
    [kind |-> "APIError", status |-> status, text |-> "", detail |-> body.raw]

\* fmt.Errorf("voyage: <text>, detail: %s", detail)
Voyage(text, detail) ==
    [kind |-> "voyage", status |-> 0, text |-> text, detail |-> detail]

\* What a call is given: a request value json.Marshal accepts and a URL
\* http.NewRequest accepts ("ok"), a value json.Marshal rejects, or a base
\* URL http.NewRequest rejects.  Both functions depend on nothing else, so
\* they fail on every attempt of the call or on none.
Inputs == {"ok", "unmarshalable", "badURL"}

\* What one run of the loop body meets: fail names the step that fails
\* ("none": a response is read in full), status and body the response.
Outcomes(in) ==
    CASE in = "unmarshalable" -> { [fail |-> "marshal", status |-> 0, body |-> NoBody] }
      [] in = "badURL" -> { [fail |-> "create", status |-> 0, body |-> NoBody] }
      [] OTHER ->
           { [fail |-> "do", status |-> 0, body |-> NoBody] }
           \cup { [fail |-> "read", status |-> s, body |-> NoBody] : s \in Statuses }
           \cup { [fail |-> "none", status |-> s, body |-> b] : s \in Statuses, b \in Bodies }

\* json.Unmarshal(body, respBody): an error and no write when the bytes are
\* not JSON; otherwise the fields of the object that fit overwrite dest, and
\* a field that does not fit is skipped and reported as the error.
UnmarshalResp(body, dest) ==
    IF ~body.json THEN [ok |-> FALSE, value |-> dest]
    ELSE [ok |-> body.typed, value |-> IF body.payload # "" THEN body.payload ELSE dest]

NoOutcome == [fail |-> "idle", status |-> 0, body |-> NoBody]

\* NewClient with the environment variable winning over opts.Key.
newClientAPIKey_EnvFirst(key, env) == IF env = "" THEN key ELSE env

\* NewClient: apikey is os.Getenv("VOYAGE_API_KEY") if opts.Key == "",
\* opts.Key otherwise.
newClientAPIKey(key, env) == IF key = "" THEN env ELSE key

\* do: req.Header.Set("Authorization", "BEARER "+c.apikey)
authorization(key) == "BEARER " \o key

----
\* Request values and encoding/json.

\* A Go pointer: nil, or the address of a value.
Nil(zero) == [nil |-> TRUE, v |-> zero]

Ptr(x) == [nil |-> FALSE, v |-> x]

\* Values a caller gives the optional fields: unset, the falsy value, and a
\* truthy one.
StringPtrs == {Nil(""), Ptr(""), Ptr("query")}

BoolPtrs == {Nil(FALSE), Ptr(FALSE), Ptr(TRUE)}

IntPtrs == {Nil(0), Ptr(0), Ptr(512)}

EmbeddingRequestOpts ==
    [InputType : StringPtrs, Truncation : BoolPtrs, OutputDimension : IntPtrs,
     OutputDType : StringPtrs, EncodingFormat : StringPtrs]

MultimodalRequestOpts ==
    [InputType : StringPtrs, Truncation : BoolPtrs, OuputEncoding : StringPtrs]

RerankRequestOpts ==
    [TopK : IntPtrs, ReturnDocuments : BoolPtrs, Truncation : BoolPtrs]

\* The opts argument of a method: nil or a pointer to one of the options.
OptsPtrs(options) ==
    {Nil(CHOOSE o \in options : TRUE)} \cup {Ptr(o) : o \in options}

\* The data URL GetBase64 makes of an image format and the base64 text of
\* the image's bytes.
GetBase64(format, b64) == "data:image/" \o format \o ";base64," \o b64

\* Formats imageToBytes encodes, and base64 texts of the standard alphabet.
Formats == {"png", "jpeg", "gif"}

Base64Texts == {"iVBORw0KGgo=", "R0lG+/8="}

\* What a caller can give Multimodal: a text, an image URL, a data URL made
\* by GetBase64 or converted from a string with characters the JSON encoder
\* escapes, or a value of any other type.
MultimodalValues ==
    {[type |-> "text", s |-> "a<b"], [type |-> "text", s |-> ""],
     [type |-> "imageURL", s |-> "https://h/i.png?w=1&h=2"],
     [type |-> "imageBase64",
      s |-> "data:image/svg+xml;charset=\"utf-8\";base64,PHN2Zz4="],
     [type |-> "other", s |-> "7"]}
    \cup {[type |-> "imageBase64", s |-> GetBase64(f, b)] :
             f \in Formats, b \in Base64Texts}

\* Multimodal with the payload of an image URL put in ImageBase64.
Multimodal_URLAsBase64(v) ==
    CASE v.type = "text" ->
           [Type |-> "text", Text |-> v.s, ImageBase64 |-> "", ImageURL |-> ""]
      [] v.type = "imageBase64" ->
           [Type |-> "image_base64", Text |-> "", ImageBase64 |-> v.s, ImageURL |-> ""]
      [] v.type = "imageURL" ->
           [Type |-> "image_url", Text |-> "", ImageBase64 |-> v.s, ImageURL |-> ""]
      [] OTHER ->
           [Type |-> "", Text |-> "", ImageBase64 |-> "", ImageURL |-> ""]

\* Multimodal(v): the type switch on v.
Multimodal(v) ==
    CASE v.type = "text" ->
           [Type |-> "text", Text |-> v.s, ImageBase64 |-> "", ImageURL |-> ""]
      [] v.type = "imageBase64" ->
           [Type |-> "image_base64", Text |-> "", ImageBase64 |-> v.s, ImageURL |-> ""]
      [] v.type = "imageURL" ->
           [Type |-> "image_url", Text |-> "", ImageBase64 |-> "", ImageURL |-> v.s]
      [] OTHER ->
           [Type |-> "", Text |-> "", ImageBase64 |-> "", ImageURL |-> ""]

\* reqBody as Embed builds it from opts.
embedReqBody(opts) ==
    IF ~opts.nil
      THEN [Input |-> <<"I like cats">>, Model |-> "voyage-3.5",
            InputType |-> opts.v.InputType,
            Truncation |-> opts.v.Truncation,
            OutputDimension |-> opts.v.OutputDimension,
            OutputDType |-> opts.v.OutputDType,
            EncodingFormat |-> opts.v.EncodingFormat]
      ELSE [Input |-> <<"I like cats">>, Model |-> "voyage-3.5",
            InputType |-> Nil(""), Truncation |-> Nil(FALSE),
            OutputDimension |-> Nil(0), OutputDType |-> Nil(""),
            EncodingFormat |-> Nil("")]

\* reqBody as MultimodalEmbed builds it from inputs and opts.
multimodalReqBody(inputs, opts) ==
    IF ~opts.nil
      THEN [Inputs |-> inputs, Model |-> "voyage-multimodal-3",
            InputType |-> opts.v.InputType,
            Truncation |-> opts.v.Truncation,
            OuputEncoding |-> opts.v.OuputEncoding]
      ELSE [Inputs |-> inputs, Model |-> "voyage-multimodal-3",
            InputType |-> Nil(""), Truncation |-> Nil(FALSE),
            OuputEncoding |-> Nil("")]

\* reqBody as Rerank builds it from opts.
rerankReqBody(opts) ==
    IF ~opts.nil
      THEN [Query |-> "pets", Documents |-> <<"I like cats">>, Model |-> "rerank-2",
            TopK |-> opts.v.TopK,
            ReturnDocuments |-> opts.v.ReturnDocuments,
            Truncation |-> opts.v.Truncation]
      ELSE [Query |-> "pets", Documents |-> <<"I like cats">>, Model |-> "rerank-2",
            TopK |-> Nil(0), ReturnDocuments |-> Nil(FALSE),
            Truncation |-> Nil(FALSE)]

\* encoding/json, strings: the characters the encoder escapes.
escape(c) ==
    CASE c = "\"" -> "\\\""
      [] c = "\\" -> "\\\\"
      [] c = "<" -> "\\u003c"
      [] c = ">" -> "\\u003e"
      [] c = "&" -> "\\u0026"
      [] OTHER -> c

RECURSIVE escapeAll(_)
escapeAll(s) == IF s = "" THEN "" ELSE escape(Head(s)) \o escapeAll(Tail(s))

encodeString(s) == "\"" \o escapeAll(s) \o "\""

\* The character a \uXXXX escape of the encoder stands for.
unicode(hex) ==
    CASE hex = "003c" -> "<"
      [] hex = "003e" -> ">"
      [] hex = "0026" -> "&"
      [] OTHER -> "?"

RECURSIVE unescapeAll(_)
unescapeAll(s) ==
    IF s = "" THEN ""
    ELSE IF Head(s) # "\\" THEN Head(s) \o unescapeAll(Tail(s))
    ELSE IF SubSeq(s, 2, 2) = "u"
      THEN unicode(SubSeq(s, 3, 6)) \o unescapeAll(SubSeq(s, 7, Len(s)))
      ELSE SubSeq(s, 2, 2) \o unescapeAll(SubSeq(s, 3, Len(s)))

\* The decoder handing back the literal with its quotes and escapes.
decodeString_Literal(raw) == raw

decodeString(raw) == unescapeAll(SubSeq(raw, 2, Len(raw) - 1))

encodeBool(b) == IF b THEN "true" ELSE "false"

decodeBool(raw) == raw = "true"

Digit(d) == SubSeq("0123456789", d + 1, d + 1)

RECURSIVE digits(_)
digits(n) == IF n < 10 THEN Digit(n) ELSE digits(n \div 10) \o Digit(n % 10)

encodeInt(n) == IF n < 0 THEN "-" \o digits(0 - n) ELSE digits(n)

RECURSIVE number(_, _)
number(s, acc) ==
    IF s = "" THEN acc
    ELSE number(Tail(s), acc * 10 + (CHOOSE d \in 0 .. 9 : Digit(d) = Head(s)))

decodeInt(raw) ==
    IF Head(raw) = "-" THEN 0 - number(Tail(raw), 0) ELSE number(raw, 0)

\* JSON values: a literal, an array of values, an object of members in the
\* order the encoder wrote them.
Scalar(raw) == [t |-> "scalar", raw |-> raw, elems |-> <<>>]

Array(elems) == [t |-> "array", raw |-> "", elems |-> elems]

Object(members) == [t |-> "object", raw |-> "", elems |-> members]

Member(key, val) == [key |-> key, val |-> val]

Has(obj, key) == \E k \in 1 .. Len(obj.elems) : obj.elems[k].key = key

Get(obj, key) ==
    obj.elems[CHOOSE k \in 1 .. Len(obj.elems) : obj.elems[k].key = key].val

\* A pointer field tagged omitempty that is left out whenever its value is
\* the zero value of its type.
fieldPtr_OmitZero(key, p, raw) ==
    IF p.nil \/ raw \in {"false", "0", "\"\""}
      THEN <<>>
      ELSE <<Member(key, Scalar(raw))>>

\* A pointer field tagged omitempty: left out when nil, else the literal raw
\* of the value it points to.
fieldPtr(key, p, raw) ==
    IF p.nil THEN <<>> ELSE <<Member(key, Scalar(raw))>>

\* A string field tagged omitempty: left out when empty.
fieldString(key, s) ==
    IF s = "" THEN <<>> ELSE <<Member(key, Scalar(encodeString(s)))>>

arrayOfStrings(ss) == Array([k \in 1 .. Len(ss) |-> Scalar(encodeString(ss[k]))])

\* json.Marshal of an EmbeddingRequest
marshalEmbeddingRequest(r) ==
    Object(<<Member("input", arrayOfStrings(r.Input)),
             Member("model", Scalar(encodeString(r.Model)))>>
           \o fieldPtr("input_type", r.InputType, encodeString(r.InputType.v))
           \o fieldPtr("truncation", r.Truncation, encodeBool(r.Truncation.v))
           \o fieldPtr("output_dimension", r.OutputDimension,
                       encodeInt(r.OutputDimension.v))
           \o fieldPtr("output_dtype", r.OutputDType, encodeString(r.OutputDType.v))
           \o fieldPtr("encoding_format", r.EncodingFormat,
                       encodeString(r.EncodingFormat.v)))

\* json.Marshal of a MultimodalInput
marshalMultimodalInput(m) ==
    Object(<<Member("type", Scalar(encodeString(m.Type)))>>
           \o fieldString("text", m.Text)
           \o fieldString("image_base64", m.ImageBase64)
           \o fieldString("image_url", m.ImageURL))

\* json.Marshal of a MultimodalContent
marshalMultimodalContent(c) ==
    Object(<<Member("content",
                    Array([k \in 1 .. Len(c.Content) |->
                              marshalMultimodalInput(c.Content[k])]))>>)

\* json.Marshal of a MultimodalRequest
marshalMultimodalRequest(r) ==
    Object(<<Member("inputs",
                    Array([k \in 1 .. Len(r.Inputs) |->
                              marshalMultimodalContent(r.Inputs[k])])),
             Member("model", Scalar(encodeString(r.Model)))>>
           \o fieldPtr("input_type", r.InputType, encodeString(r.InputType.v))
           \o fieldPtr("truncation", r.Truncation, encodeBool(r.Truncation.v))
           \o fieldPtr("output_encoding", r.OuputEncoding,
                       encodeString(r.OuputEncoding.v)))

\* json.Marshal of a RerankRequest
marshalRerankRequest(r) ==
    Object(<<Member("query", Scalar(encodeString(r.Query))),
             Member("documents", arrayOfStrings(r.Documents)),
             Member("model", Scalar(encodeString(r.Model)))>>
           \o fieldPtr("top_k", r.TopK, encodeInt(r.TopK.v))
           \o fieldPtr("return_documents", r.ReturnDocuments,
                       encodeBool(r.ReturnDocuments.v))
           \o fieldPtr("truncation", r.Truncation, encodeBool(r.Truncation.v)))

\* json.Unmarshal into the fields of a zero struct: a key the document lacks
\* leaves the field at its zero value, null makes a pointer nil.
stringOf(obj, key) ==
    IF Has(obj, key) /\ Get(obj, key).raw # "null"
      THEN decodeString(Get(obj, key).raw)
      ELSE ""

stringPtrOf(obj, key) ==
    IF Has(obj, key) /\ Get(obj, key).raw # "null"
      THEN Ptr(decodeString(Get(obj, key).raw))
      ELSE Nil("")

boolPtrOf(obj, key) ==
    IF Has(obj, key) /\ Get(obj, key).raw # "null"
      THEN Ptr(decodeBool(Get(obj, key).raw))
      ELSE Nil(FALSE)

intPtrOf(obj, key) ==
    IF Has(obj, key) /\ Get(obj, key).raw # "null"
      THEN Ptr(decodeInt(Get(obj, key).raw))
      ELSE Nil(0)

stringsOf(obj, key) ==
    IF Has(obj, key)
      THEN [k \in 1 .. Len(Get(obj, key).elems) |->
               decodeString(Get(obj, key).elems[k].raw)]
      ELSE <<>>

\* json.Unmarshal into an EmbeddingRequest
unmarshalEmbeddingRequest(obj) ==
    [Input |-> stringsOf(obj, "input"),
     Model |-> stringOf(obj, "model"),
     InputType |-> stringPtrOf(obj, "input_type"),
     Truncation |-> boolPtrOf(obj, "truncation"),
     OutputDimension |-> intPtrOf(obj, "output_dimension"),
     OutputDType |-> stringPtrOf(obj, "output_dtype"),
     EncodingFormat |-> stringPtrOf(obj, "encoding_format")]

\* json.Unmarshal into a MultimodalInput
unmarshalMultimodalInput(obj) ==
    [Type |-> stringOf(obj, "type"),
     Text |-> stringOf(obj, "text"),
     ImageBase64 |-> stringOf(obj, "image_base64"),
     ImageURL |-> stringOf(obj, "image_url")]

\* json.Unmarshal into a MultimodalContent
unmarshalMultimodalContent(obj) ==
    [Content |->
        IF Has(obj, "content")
          THEN [k \in 1 .. Len(Get(obj, "content").elems) |->
                   unmarshalMultimodalInput(Get(obj, "content").elems[k])]
          ELSE <<>>]

\* json.Unmarshal into a MultimodalRequest
unmarshalMultimodalRequest(obj) ==
    [Inputs |->
        IF Has(obj, "inputs")
          THEN [k \in 1 .. Len(Get(obj, "inputs").elems) |->
                   unmarshalMultimodalContent(Get(obj, "inputs").elems[k])]
          ELSE <<>>,
     Model |-> stringOf(obj, "model"),
     InputType |-> stringPtrOf(obj, "input_type"),
     Truncation |-> boolPtrOf(obj, "truncation"),
     OuputEncoding |-> stringPtrOf(obj, "output_encoding")]

\* json.Unmarshal into a RerankRequest
unmarshalRerankRequest(obj) ==
    [Query |-> stringOf(obj, "query"),
     Documents |-> stringsOf(obj, "documents"),
     Model |-> stringOf(obj, "model"),
     TopK |-> intPtrOf(obj, "top_k"),
     ReturnDocuments |-> boolPtrOf(obj, "return_documents"),
     Truncation |-> boolPtrOf(obj, "truncation")]

----
\* NewClient: the base URL when opts.BaseURL is empty.
baseURL == "https://api.voyageai.com/v1"

\* The path each exported method appends to c.baseURL.
endpoint(name) ==
    CASE name = "Embed" -> "/embeddings"
      [] name = "MultimodalEmbed" -> "/multimodalembeddings"
      [] OTHER -> "/rerank"

\* The bytes json.Marshal makes of the reqBody each method built, here from
\* nil opts and, for MultimodalEmbed, one inline image.
embedBytes ==
    marshalEmbeddingRequest(embedReqBody(Nil(CHOOSE o \in EmbeddingRequestOpts : TRUE)))

multimodalBytes ==
    marshalMultimodalRequest(
        multimodalReqBody(
            <<[Content |->
                 <<Multimodal([type |-> "imageBase64",
                               s |-> GetBase64("png", "iVBORw0KGgo=")])>>]>>,
            Nil(CHOOSE o \in MultimodalRequestOpts : TRUE)))

rerankBytes ==
    marshalRerankRequest(rerankReqBody(Nil(CHOOSE o \in RerankRequestOpts : TRUE)))

requestBytes(name) ==
    CASE name = "Embed" -> embedBytes
      [] name = "MultimodalEmbed" -> multimodalBytes
      [] OTHER -> rerankBytes

\* The request of a retry made with GET.
requestOf_GetOnRetry(name) ==
    [method |-> IF i = 0 THEN "POST" ELSE "GET",
     url |-> baseURL \o endpoint(name), body |-> requestBytes(name)]

\* http.NewRequest("POST", url, bytes.NewBuffer(reqBytes)), made anew by
\* every attempt from the url and reqBody handleAPIRequest was given.
requestOf(name) ==
    [method |-> "POST", url |-> baseURL \o endpoint(name), body |-> requestBytes(name)]

\* The entry hist gets for a transport invocation: the status received
\* (0: c.do returned an error), whether the transport delivers the whole
\* body, whether the body is JSON that fits the response type, the
\* Authorization header of the request, and the request itself.
HistEntry(o) ==
    [status |-> o.status, complete |-> (o.fail = "none"),
     json |-> (o.body.json /\ o.body.typed), auth |-> authorization(apikey),
     request |-> requestOf(op)]

\* No response body obtained yet.
NoBodies == [opened |-> 0, read |-> 0, closed |-> 0]

NoVerdict == [status |-> 0, retry |-> FALSE]

----
\* src/client.go

\* handleAPIError with the default case answering false.
handleAPIError_DefaultFatal(resp) ==
    CASE resp.status = 400 ->
           [retry |-> FALSE, err |-> Voyage("bad request", resp.detail)]
      [] resp.status = 401 ->
           [retry |-> FALSE, err |-> Voyage("unauthorized", resp.detail)]
      [] resp.status = 422 ->
           [retry |-> FALSE, err |-> Voyage("Malformed Request", resp.detail)]
      [] resp.status = 429 ->
           [retry |-> TRUE, err |-> Voyage("Rate Limit Reached", resp.detail)]
      [] OTHER ->
           [retry |-> FALSE, err |-> Voyage("Server Error", "")]

\* handleAPIError with case 401 answering true.
handleAPIError_401Retried(resp) ==
    CASE resp.status = 400 ->
           [retry |-> FALSE, err |-> Voyage("bad request", resp.detail)]
      [] resp.status = 401 ->
           [retry |-> TRUE, err |-> Voyage("unauthorized", resp.detail)]
      [] resp.status = 422 ->
           [retry |-> FALSE, err |-> Voyage("Malformed Request", resp.detail)]
      [] resp.status = 429 ->
           [retry |-> TRUE, err |-> Voyage("Rate Limit Reached", resp.detail)]
      [] OTHER ->
           [retry |-> TRUE, err |-> Voyage("Server Error", "")]

\* The switch of handleAPIError on resp.StatusCode; resp is an APIError value.
handleAPIError(resp) ==
    CASE resp.status = 400 ->
           [retry |-> FALSE, err |-> Voyage("bad request", resp.detail)]
      [] resp.status = 401 ->
           [retry |-> FALSE, err |-> Voyage("unauthorized", resp.detail)]
      [] resp.status = 422 ->
           [retry |-> FALSE, err |-> Voyage("Malformed Request", resp.detail)]
      [] resp.status = 429 ->
           [retry |-> TRUE, err |-> Voyage("Rate Limit Reached", resp.detail)]
      [] OTHER ->
           [retry |-> TRUE, err |-> Voyage("Server Error", "")]

\* classifyError answering true for the errors that are no APIError.
classifyError_RetryOthers(e) ==
    IF e.kind = "APIError" THEN handleAPIError(e)
    ELSE [retry |-> TRUE, err |-> e]

\* errors.As(err, &apiError) selects the APIError values.
classifyError(e) ==
    IF e.kind = "APIError" THEN handleAPIError(e)
    ELSE [retry |-> FALSE, err |-> e]

\* The end of executeRequest with the result of json.Unmarshal dropped.
unmarshalResponse_ErrorDropped(body, dest) ==
    [err |-> NoErr, value |-> UnmarshalResp(body, dest).value]

\* The end of executeRequest: json.Unmarshal(body, respBody), its error
\* wrapped as "unmarshal response".
unmarshalResponse(body, dest) ==
    LET u == UnmarshalResp(body, dest) IN
    IF ~u.ok THEN [err |-> Error("unmarshal", "unmarshal response"), value |-> u.value]
    ELSE [err |-> NoErr, value |-> u.value]

\* executeRequest making an APIError of every status outside 2xx.
executeRequest_Only2xx(o, dest) ==
    CASE o.fail = "marshal" ->
           [err |-> Error("marshal", "marshal request"), sent |-> FALSE, value |-> dest,
            got |-> FALSE, read |-> FALSE, closed |-> FALSE]
      [] o.fail = "create" ->
           [err |-> Error("create", "create request"), sent |-> FALSE, value |-> dest,
            got |-> FALSE, read |-> FALSE, closed |-> FALSE]
      [] o.fail = "do" ->
           [err |-> Error("do", "execute request"), sent |-> TRUE, value |-> dest,
            got |-> FALSE, read |-> FALSE, closed |-> FALSE]
      [] o.fail = "read" ->
           [err |-> Error("read", "read response"), sent |-> TRUE, value |-> dest,
            got |-> TRUE, read |-> TRUE, closed |-> TRUE]
      [] OTHER ->
           IF o.status >= 300
           THEN [err |-> APIErrorOf(o.status, o.body), sent |-> TRUE, value |-> dest,
                 got |-> TRUE, read |-> TRUE, closed |-> TRUE]
           ELSE LET u == unmarshalResponse(o.body, dest) IN
                [err |-> u.err, sent |-> TRUE, value |-> u.value,
                 got |-> TRUE, read |-> TRUE, closed |-> TRUE]

\* One attempt.  sent: c.do was called; value: respBody afterwards; got: c.do
\* returned a response, whose body io.ReadAll then reads (read) and the
\* deferred resp.Body.Close() closes (closed).
executeRequest(o, dest) ==
    CASE o.fail = "marshal" ->
           [err |-> Error("marshal", "marshal request"), sent |-> FALSE, value |-> dest,
            got |-> FALSE, read |-> FALSE, closed |-> FALSE]
      [] o.fail = "create" ->
           [err |-> Error("create", "create request"), sent |-> FALSE, value |-> dest,
            got |-> FALSE, read |-> FALSE, closed |-> FALSE]
      [] o.fail = "do" ->
           [err |-> Error("do", "execute request"), sent |-> TRUE, value |-> dest,
            got |-> FALSE, read |-> FALSE, closed |-> FALSE]
      [] o.fail = "read" ->
           [err |-> Error("read", "read response"), sent |-> TRUE, value |-> dest,
            got |-> TRUE, read |-> TRUE, closed |-> TRUE]
      [] OTHER ->
           IF o.status >= 400
           THEN [err |-> APIErrorOf(o.status, o.body), sent |-> TRUE, value |-> dest,
                 got |-> TRUE, read |-> TRUE, closed |-> TRUE]
           ELSE LET u == unmarshalResponse(o.body, dest) IN
                [err |-> u.err, sent |-> TRUE, value |-> u.value,
                 got |-> TRUE, read |-> TRUE, closed |-> TRUE]

\* The local maxRetries without the default for zero.
resolveMaxRetries_NoDefault(m) == m

\* maxRetries := c.opts.MaxRetries; if maxRetries == 0 { maxRetries = 1 }
resolveMaxRetries(m) == IF m = 0 THEN 1 ELSE m

\* The body of handleAPIRequest's loop: it returns err (ret), or continues
\* with lastErr set.  verdict is what handleAPIError answered, if asked.
loopBody(o, dest, le) ==
    LET r == executeRequest(o, dest)
        c == classifyError(r.err)
        v == IF r.err.kind = "APIError"
             THEN [status |-> r.err.status, retry |-> c.retry]
             ELSE NoVerdict
        b == [got |-> r.got, read |-> r.read, closed |-> r.closed]
    IN  IF r.err # NoErr
        THEN IF c.retry
             THEN [ret |-> FALSE, err |-> NoErr, lastErr |-> c.err, sent |-> r.sent,
                   value |-> r.value, attemptErr |-> r.err, verdict |-> v, body |-> b]
             ELSE [ret |-> TRUE, err |-> r.err, lastErr |-> le, sent |-> r.sent,
                   value |-> r.value, attemptErr |-> r.err, verdict |-> v, body |-> b]
        ELSE [ret |-> TRUE, err |-> NoErr, lastErr |-> le, sent |-> r.sent,
              value |-> r.value, attemptErr |-> NoErr, verdict |-> v, body |-> b]

\* The loop's exit returning nil.
exhaustedErr_Nil(le) == NoErr

\* return lastErr, after the loop
exhaustedErr(le) == le

----
\* src/unnamed/part_000

\* handleAPIError(resp *http.Response): for a 4xx status the body is read
\* and unmarshalled into an APIError{Detail} first, and either failure is
\* returned with false; then the switch on the status code.
handleAPIError0(o) ==
    LET is4xx == o.status >= 400 /\ o.status < 500
        detail == IF is4xx THEN o.body.detail ELSE ""
    IN  IF is4xx /\ o.fail = "read" THEN [retry |-> FALSE, err |-> Error("read", "")]
        ELSE IF is4xx /\ ~o.body.json THEN [retry |-> FALSE, err |-> Error("unmarshal", "")]
        ELSE CASE o.status = 400 ->
                    [retry |-> FALSE, err |-> Voyage("bad request", detail)]
               [] o.status = 401 ->
                    [retry |-> FALSE, err |-> Voyage("unauthorized", detail)]
               [] o.status = 422 ->
                    [retry |-> FALSE, err |-> Voyage("Malformed Request", detail)]
               [] o.status = 429 ->
                    [retry |-> TRUE, err |-> Voyage("Rate Limit Reached", detail)]
               [] OTHER ->
                    [retry |-> TRUE, err |-> Voyage("Server Error", "")]

\* if c.opts.MaxRetries == 0 { c.opts.MaxRetries = 1 }: the field afterwards.
\* The same statement opens MultimodalEmbed and Rerank in both files.
defaultMaxRetries(m) == IF m = 0 THEN 1 ELSE m

\* The body of handleAPIRequest's loop: it returns err (ret) or goes on to
\* the next iteration, after a retryable status and after a decoded response
\* alike.
loopBody0(o, dest) ==
    LET \* what became of the response body: io.ReadAll is called in
        \* handleAPIError for a 4xx status and at line 131 for a status below
        \* 400; resp.Body.Close() is called nowhere.
        none == [got |-> FALSE, read |-> FALSE, closed |-> FALSE]
        kept(rd) == [got |-> TRUE, read |-> rd, closed |-> FALSE]
        cont(v, e, ver, b) ==
            [ret |-> FALSE, err |-> NoErr, sent |-> TRUE, value |-> v,
             attemptErr |-> e, verdict |-> ver, body |-> b]
        stop(e, sent, ver, b) ==
            [ret |-> TRUE, err |-> e, sent |-> sent, value |-> dest,
             attemptErr |-> e, verdict |-> ver, body |-> b]
        stopDecode(v) ==
            [ret |-> TRUE, err |-> Error("unmarshal", ""), sent |-> TRUE, value |-> v,
             attemptErr |-> Error("unmarshal", ""), verdict |-> NoVerdict,
             body |-> kept(TRUE)]
    IN  CASE o.fail = "marshal" -> stop(Error("marshal", ""), FALSE, NoVerdict, none)
          [] o.fail = "create" -> stop(Error("create", ""), FALSE, NoVerdict, none)
          [] o.fail = "do" -> stop(Error("do", ""), TRUE, NoVerdict, none)
          [] OTHER ->
               IF o.status >= 400
               THEN LET h == handleAPIError0(o)
                        ver == [status |-> o.status, retry |-> h.retry]
                        b == kept(o.status < 500)
                    IN  IF ~h.retry THEN stop(h.err, TRUE, ver, b)
                        ELSE cont(dest, h.err, ver, b)
               ELSE IF o.fail = "read" THEN stop(Error("read", ""), TRUE, NoVerdict, kept(TRUE))
               ELSE LET u == UnmarshalResp(o.body, dest) IN
                    IF ~u.ok THEN stopDecode(u.value)
                    ELSE cont(u.value, NoErr, NoVerdict, kept(TRUE))

\* return nil, after the loop
exhaustedErr0 == NoErr

----
\* No request body under construction.
WireStart ==
    /\ wpc = "start"
    /\ wKind = "none"
    /\ wOpts = <<>>
    /\ wValue = <<>>
    /\ wReq = <<>>
    /\ wBody = <<>>
    /\ wBack = <<>>

\* No call in flight.
CallersIdle ==
    /\ callPc = [c \in Callers |-> "idle"]
    /\ callOp = [c \in Callers |-> "none"]
    /\ callMax = [c \in Callers |-> 0]
    /\ callAttempts = [c \in Callers |-> 0]

\* The one call of Spec before it is made.
LoopIdle ==
    /\ op = "none"
    /\ pc = "idle"
    /\ input = "none"
    /\ maxRetries = 0
    /\ i = 0
    /\ attempts = 0
    /\ hist = <<>>
    /\ outcome = NoOutcome
    /\ attemptErr = NoErr
    /\ verdict = NoVerdict
    /\ lastErr = NoErr
    /\ respBody = ZeroResp
    /\ bodies = NoBodies
    /\ err = NoErr

\* The client after NewClient(&VoyageClientOpts{MaxRetries: configured}).
Init ==
    /\ impl \in Impls
    /\ configured \in MaxRetriesValues
    /\ optsKey \in Keys
    /\ envKey \in EnvKeys
    /\ apikey = newClientAPIKey(optsKey, envKey)
    /\ optsMaxRetries = configured
    /\ LoopIdle
    /\ WireStart
    /\ CallersIdle

\* An exported method builds its request and enters handleAPIRequest's loop.
\* field is c.opts.MaxRetries when the loop starts.
Enter(name, field) ==
    /\ op' = name
    /\ pc' = "loop"
    /\ input' \in Inputs
    /\ optsMaxRetries' = field
    /\ maxRetries' = IF impl = "client.go" THEN resolveMaxRetries(field) ELSE field
    /\ UNCHANGED <<wireVars, callerVars, clientVars, i, attempts, hist, outcome, attemptErr,
                   verdict, lastErr, respBody, bodies, err>>

\* Embed calls handleAPIRequest directly; part_000's handleAPIRequest
\* defaults the field itself.
Embed ==
    /\ pc = "idle"
    /\ Enter("Embed", IF impl = "client.go" THEN optsMaxRetries
                      ELSE defaultMaxRetries(optsMaxRetries))

MultimodalEmbed ==
    /\ pc = "idle"
    /\ Enter("MultimodalEmbed", defaultMaxRetries(optsMaxRetries))

Rerank ==
    /\ pc = "idle"
    /\ Enter("Rerank", defaultMaxRetries(optsMaxRetries))

\* The common effect of one loop iteration whose result is s.
Iterate(o, s) ==
    /\ attempts' = attempts + 1
    /\ outcome' = o
    /\ hist' = IF s.sent THEN Append(hist, HistEntry(o)) ELSE hist
    /\ attemptErr' = s.attemptErr
    /\ verdict' = s.verdict
    /\ respBody' = s.value
    /\ bodies' = [opened |-> bodies.opened + (IF s.body.got THEN 1 ELSE 0),
                  read |-> bodies.read + (IF s.body.read THEN 1 ELSE 0),
                  closed |-> bodies.closed + (IF s.body.closed THEN 1 ELSE 0)]
    /\ IF s.ret
       THEN /\ pc' = "done"
            /\ err' = s.err
            /\ i' = i
       ELSE /\ pc' = "loop"
            /\ err' = err
            /\ i' = i + 1
    /\ UNCHANGED <<wireVars, callerVars, clientVars, optsMaxRetries, op, input, maxRetries>>

\* The loop of client.go running its body once more than maxRetries allows.
Attempt_OneMore ==
    /\ impl = "client.go"
    /\ pc = "loop"
    /\ i <= maxRetries
    /\ \E o \in Outcomes(input) :
         LET s == loopBody(o, respBody, lastErr) IN
         /\ Iterate(o, s)
         /\ lastErr' = s.lastErr

\* client.go: for i := 0; i < maxRetries; i++ { ... }
Attempt ==
    /\ impl = "client.go"
    /\ pc = "loop"
    /\ i < maxRetries
    /\ \E o \in Outcomes(input) :
         LET s == loopBody(o, respBody, lastErr) IN
         /\ Iterate(o, s)
         /\ lastErr' = s.lastErr

\* The loop of client.go staying put when its condition fails, the return
\* after it never reached.
Exhausted_Stuck ==
    /\ impl = "client.go"
    /\ pc = "loop"
    /\ i >= maxRetries
    /\ UNCHANGED vars

\* The condition i < maxRetries fails: return lastErr.
Exhausted ==
    /\ impl = "client.go"
    /\ pc = "loop"
    /\ i >= maxRetries
    /\ pc' = "done"
    /\ err' = exhaustedErr(lastErr)
    /\ UNCHANGED <<wireVars, callerVars, clientVars, optsMaxRetries, op, input, maxRetries, i, attempts,
                   hist, outcome, attemptErr, verdict, lastErr, respBody, bodies>>

\* part_000: for range c.opts.MaxRetries { ... }
Attempt0 ==
    /\ impl = "part_000"
    /\ pc = "loop"
    /\ i < maxRetries
    /\ \E o \in Outcomes(input) : Iterate(o, loopBody0(o, respBody))
    /\ UNCHANGED lastErr

Exhausted0 ==
    /\ impl = "part_000"
    /\ pc = "loop"
    /\ i >= maxRetries
    /\ pc' = "done"
    /\ err' = exhaustedErr0
    /\ UNCHANGED <<wireVars, callerVars, clientVars, optsMaxRetries, op, input, maxRetries, i, attempts,
                   hist, outcome, attemptErr, verdict, lastErr, respBody, bodies>>

\* The method returns (&respBody, err); the client is ready for the next call.
Return ==
    /\ pc = "done"
    /\ pc' = "idle"
    /\ op' = "none"
    /\ input' = "none"
    /\ maxRetries' = 0
    /\ i' = 0
    /\ attempts' = 0
    /\ hist' = <<>>
    /\ outcome' = NoOutcome
    /\ attemptErr' = NoErr
    /\ verdict' = NoVerdict
    /\ lastErr' = NoErr
    /\ respBody' = ZeroResp
    /\ bodies' = NoBodies
    /\ err' = NoErr
    /\ UNCHANGED <<wireVars, callerVars, clientVars, optsMaxRetries>>

Next ==
    \/ Embed
    \/ MultimodalEmbed
    \/ Rerank
    \/ Attempt
    \/ Exhausted
    \/ Attempt0
    \/ Exhausted0
    \/ Return

Spec == Init /\ [][Next]_vars

\* One client, its key given in the options.
InitLive ==
    /\ Init
    /\ optsKey = "APIKEY"
    /\ envKey = ""

\* A step of handleAPIRequest's loop: an iteration, which ends when the
\* transport invocation and the reading of the body return, or the exit.
LoopStep == Attempt \/ Exhausted \/ Attempt0 \/ Exhausted0

\* Spec with a call that has entered handleAPIRequest kept running: the
\* goroutine is scheduled and every transport invocation returns.
SpecLive == InitLive /\ [][Next]_vars /\ WF_vars(LoopStep)

----
\* Request bodies on the wire (SpecWire).

\* A client at rest: SpecWire and SpecConc leave the one call of Spec unmade.
InitWire ==
    /\ impl = "client.go"
    /\ configured = 0
    /\ optsKey = "APIKEY"
    /\ envKey = ""
    /\ apikey = newClientAPIKey(optsKey, envKey)
    /\ optsMaxRetries = configured
    /\ LoopIdle
    /\ WireStart
    /\ CallersIdle

\* Embed builds its reqBody.
EmbeddingRequest ==
    /\ wpc = "start"
    /\ \E opts \in OptsPtrs(EmbeddingRequestOpts) :
          /\ wOpts' = opts
          /\ wReq' = embedReqBody(opts)
    /\ wKind' = "Embed"
    /\ wpc' = "built"
    /\ UNCHANGED <<wValue, wBody, wBack>>
    /\ UNCHANGED <<clientVars, optsMaxRetries, loopVars, callerVars>>

\* MultimodalEmbed builds its reqBody; the caller made the one content item
\* with Multimodal.
MultimodalRequest ==
    /\ wpc = "start"
    /\ \E opts \in OptsPtrs(MultimodalRequestOpts), v \in MultimodalValues :
          /\ wOpts' = opts
          /\ wValue' = v
          /\ wReq' = multimodalReqBody(<<[Content |-> <<Multimodal(v)>>]>>, opts)
    /\ wKind' = "MultimodalEmbed"
    /\ wpc' = "built"
    /\ UNCHANGED <<wBody, wBack>>
    /\ UNCHANGED <<clientVars, optsMaxRetries, loopVars, callerVars>>

\* Rerank builds its reqBody.
RerankRequest ==
    /\ wpc = "start"
    /\ \E opts \in OptsPtrs(RerankRequestOpts) :
          /\ wOpts' = opts
          /\ wReq' = rerankReqBody(opts)
    /\ wKind' = "Rerank"
    /\ wpc' = "built"
    /\ UNCHANGED <<wValue, wBody, wBack>>
    /\ UNCHANGED <<clientVars, optsMaxRetries, loopVars, callerVars>>

\* json.Marshal(reqBody)
Marshal ==
    /\ wpc = "built"
    /\ wBody' = CASE wKind = "Embed" -> marshalEmbeddingRequest(wReq)
                  [] wKind = "MultimodalEmbed" -> marshalMultimodalRequest(wReq)
                  [] OTHER -> marshalRerankRequest(wReq)
    /\ wpc' = "sent"
    /\ UNCHANGED <<wKind, wOpts, wValue, wReq, wBack>>
    /\ UNCHANGED <<clientVars, optsMaxRetries, loopVars, callerVars>>

\* The receiver's json.Unmarshal(b, &req) into a zero request.
Unmarshal ==
    /\ wpc = "sent"
    /\ wBack' = CASE wKind = "Embed" -> unmarshalEmbeddingRequest(wBody)
                  [] wKind = "MultimodalEmbed" -> unmarshalMultimodalRequest(wBody)
                  [] OTHER -> unmarshalRerankRequest(wBody)
    /\ wpc' = "received"
    /\ UNCHANGED <<wKind, wOpts, wValue, wReq, wBody>>
    /\ UNCHANGED <<clientVars, optsMaxRetries, loopVars, callerVars>>

NextWire ==
    \/ EmbeddingRequest
    \/ MultimodalRequest
    \/ RerankRequest
    \/ Marshal
    \/ Unmarshal

SpecWire == InitWire /\ [][NextWire]_vars

----
\* Calls in flight together on one client built with MaxRetries 0 (SpecConc).
\* Each step is one access of a call to c.opts.MaxRetries, or one attempt.
\*   "mCheck" "mWrite"  MultimodalEmbed / Rerank: if c.opts.MaxRetries == 0,
\*                      c.opts.MaxRetries = 1
\*   "hRead"            client.go handleAPIRequest: maxRetries := c.opts.MaxRetries
\*   "hCheck" "hWrite"  part_000 handleAPIRequest: if c.opts.MaxRetries == 0,
\*                      c.opts.MaxRetries = 1
\*   "hRange"           part_000 handleAPIRequest: for range c.opts.MaxRetries
\*   "loop" "done"      the attempts, the return

ReadPcs == {"mCheck", "hRead", "hCheck", "hRange"}

WritePcs == {"mWrite", "hWrite"}

\* Where handleAPIRequest starts.
handlerEntry == IF impl = "client.go" THEN "hRead" ELSE "hCheck"

InitConc ==
    /\ impl \in Impls
    /\ configured = 0
    /\ optsKey = "APIKEY"
    /\ envKey = ""
    /\ apikey = newClientAPIKey(optsKey, envKey)
    /\ optsMaxRetries = configured
    /\ LoopIdle
    /\ WireStart
    /\ CallersIdle

\* A goroutine calls an exported method.  Embed goes straight to
\* handleAPIRequest; MultimodalEmbed and Rerank first look at
\* c.opts.MaxRetries themselves.
Call(c) ==
    /\ callPc[c] = "idle"
    /\ \E name \in {"Embed", "MultimodalEmbed", "Rerank"} :
          /\ callOp' = [callOp EXCEPT ![c] = name]
          /\ callPc' = [callPc EXCEPT ![c] =
                           IF name = "Embed" THEN handlerEntry ELSE "mCheck"]
    /\ UNCHANGED <<optsMaxRetries, callMax, callAttempts>>
    /\ UNCHANGED <<clientVars, loopVars, wireVars>>

\* if c.opts.MaxRetries == 0: the read.
CheckMaxRetries(c) ==
    /\ callPc[c] \in {"mCheck", "hCheck"}
    /\ callPc' = [callPc EXCEPT ![c] =
                     CASE callPc[c] = "mCheck" /\ optsMaxRetries = 0 -> "mWrite"
                       [] callPc[c] = "mCheck" -> handlerEntry
                       [] callPc[c] = "hCheck" /\ optsMaxRetries = 0 -> "hWrite"
                       [] OTHER -> "hRange"]
    /\ UNCHANGED <<optsMaxRetries, callOp, callMax, callAttempts>>
    /\ UNCHANGED <<clientVars, loopVars, wireVars>>

\* c.opts.MaxRetries = 1: the write.
WriteMaxRetries(c) ==
    /\ callPc[c] \in WritePcs
    /\ optsMaxRetries' = 1
    /\ callPc' = [callPc EXCEPT ![c] =
                     IF callPc[c] = "mWrite" THEN handlerEntry ELSE "hRange"]
    /\ UNCHANGED <<callOp, callMax, callAttempts>>
    /\ UNCHANGED <<clientVars, loopVars, wireVars>>

\* The loop bound is read from c.opts.MaxRetries: into the local maxRetries,
\* defaulted, in client.go; as the range expression in part_000.
ReadMaxRetries(c) ==
    /\ callPc[c] \in {"hRead", "hRange"}
    /\ callMax' = [callMax EXCEPT ![c] =
                      IF callPc[c] = "hRead"
                        THEN resolveMaxRetries(optsMaxRetries)
                        ELSE optsMaxRetries]
    /\ callPc' = [callPc EXCEPT ![c] = "loop"]
    /\ UNCHANGED <<optsMaxRetries, callOp, callAttempts>>
    /\ UNCHANGED <<clientVars, loopVars, wireVars>>

\* One attempt of the call: it ends the call, or the loop goes on.
CallAttempt(c) ==
    /\ callPc[c] = "loop"
    /\ callAttempts[c] < callMax[c]
    /\ callAttempts' = [callAttempts EXCEPT ![c] = @ + 1]
    /\ \E goesOn \in BOOLEAN :
          callPc' = [callPc EXCEPT ![c] = IF goesOn THEN "loop" ELSE "done"]
    /\ UNCHANGED <<optsMaxRetries, callOp, callMax>>
    /\ UNCHANGED <<clientVars, loopVars, wireVars>>

\* The loop's condition fails: the call returns.
CallExhausted(c) ==
    /\ callPc[c] = "loop"
    /\ callAttempts[c] >= callMax[c]
    /\ callPc' = [callPc EXCEPT ![c] = "done"]
    /\ UNCHANGED <<optsMaxRetries, callOp, callMax, callAttempts>>
    /\ UNCHANGED <<clientVars, loopVars, wireVars>>

NextConc ==
    \E c \in Callers :
        \/ Call(c)
        \/ CheckMaxRetries(c)
        \/ WriteMaxRetries(c)
        \/ ReadMaxRetries(c)
        \/ CallAttempt(c)
        \/ CallExhausted(c)

SpecConc == InitConc /\ [][NextConc]_vars

----
\* Vocabulary of the properties.

NonRetryable == {400, 401, 422}

\* Every attempt of the call so far reached the endpoint and was answered
\* with status s and a body delivered in full.
AllAnswered(s) ==
    /\ attempts = Len(hist)
    /\ \A k \in 1 .. Len(hist) : hist[k].status = s /\ hist[k].complete

\* The k-th transport invocation got a status below 400 and a whole body.
Below400(k) == hist[k].status >= 1 /\ hist[k].status < 400 /\ hist[k].complete

\* C1: with MaxRetries = N >= 1 and status 500 answered to every attempt, a
\* returned Embed call has made exactly N attempts, each reaching the transport.
C1_ExactlyNAttempts ==
    (pc = "done" /\ op = "Embed" /\ configured >= 1 /\ AllAnswered(500))
        => (attempts = configured /\ Len(hist) = configured)

C1_Witness ==
    /\ pc = "done" /\ op = "Embed" /\ configured >= 2
    /\ AllAnswered(500) /\ Len(hist) = configured

\* C2: with MaxRetries = N >= 1 and status 500 answered to every attempt, the
\* call returns a non-nil error.
C2_ExhaustedIsFailure ==
    (pc = "done" /\ configured >= 1 /\ AllAnswered(500)) => err # NoErr

\* C3: an attempt that receives 400, 401 or 422 is the last attempt of its
\* call, and the call has returned a failure with it, whatever MaxRetries and
\* the attempt's index; an endpoint answering 401 is contacted once.
C3_NonRetryableStops ==
    /\ \A k \in 1 .. Len(hist) :
         hist[k].status \in NonRetryable
            => (k = Len(hist) /\ attempts = k /\ pc = "done" /\ err # NoErr)
    /\ (pc = "done" /\ attempts >= 1 /\ AllAnswered(401)) => Len(hist) = 1

C3_Witness ==
    /\ pc = "done" /\ maxRetries = 3 /\ Len(hist) = 2
    /\ hist[1].status = 429 /\ hist[2].status = 401 /\ err # NoErr

\* C4: if the first k < N attempts are answered 429 and attempt k+1 is
\* answered 200 with a decodable body, the returned call has no error, has
\* made exactly k+1 attempts, and its response is the decoding of the last
\* body received.
C4_SucceedsAfterRateLimits ==
    \A k \in 0 .. MaxN :
        ( /\ pc = "done" /\ k < configured /\ Len(hist) >= k + 1
          /\ \A j \in 1 .. k : hist[j].status = 429 /\ hist[j].complete
          /\ hist[k + 1].status = 200 /\ hist[k + 1].complete /\ hist[k + 1].json )
        => ( /\ err = NoErr
             /\ attempts = k + 1
             /\ Len(hist) = k + 1
             /\ respBody = UnmarshalResp(outcome.body, ZeroResp).value )

\* C5: a client constructed with MaxRetries = 0 makes exactly one attempt per
\* call, whatever the method and whatever the attempt meets.
C5_ZeroMeansOneAttempt ==
    configured = 0 => (attempts <= 1 /\ (pc = "done" => attempts = 1))

C5_Witness ==
    /\ pc = "done" /\ configured = 0 /\ op = "Rerank" /\ attempts = 1
    /\ Len(hist) = 1 /\ hist[1].status = 429 /\ hist[1].complete /\ hist[1].json

\* C6: an attempt that receives a status below 400 with a body that does not
\* deserialize is the last attempt of its call, which has returned the
\* decoding error.
C6_DecodeErrorStops ==
    \A k \in 1 .. Len(hist) :
        (Below400(k) /\ ~hist[k].json)
            => (k = Len(hist) /\ attempts = k /\ pc = "done" /\ err.kind = "unmarshal")

C6_Witness ==
    /\ pc = "done" /\ maxRetries = 3 /\ Len(hist) = 1
    /\ Below400(1) /\ ~hist[1].json /\ err.kind = "unmarshal"

\* C7: an attempt that ends with an error that is not an API error
\* (serialization, request construction, transport, reading, decoding) makes
\* the call return that error at once; a serialization or construction
\* failure ends the call on its first attempt with no transport invocation.
C7_NonAPIErrorStops ==
    attemptErr.kind \in {"marshal", "create", "do", "read", "unmarshal"}
        => ( /\ pc = "done"
             /\ err = attemptErr
             /\ (attemptErr.kind \in {"marshal", "create"}
                    => (attempts = 1 /\ Len(hist) = 0)) )

C7_Witness ==
    /\ pc = "done" /\ maxRetries = 3 /\ attempts = 2 /\ Len(hist) = 2
    /\ attemptErr.kind = "do" /\ err = attemptErr

\* C8: for every status >= 400 the classifier answers retryable = FALSE
\* exactly for 400, 401 and 422, whatever else the response holds.
C8_ClassifierByStatus ==
    verdict.status >= 400 => (verdict.retry <=> verdict.status \notin NonRetryable)

\* C9: once an attempt has succeeded (status below 400, body decoded), it is
\* the last attempt of its call: no further attempt is made or possible, and
\* the call returns no error.
C9_SuccessIsTerminal ==
    \A k \in 1 .. Len(hist) :
        (Below400(k) /\ hist[k].json)
            => ( /\ k = Len(hist) /\ attempts = k
                 /\ (pc = "done" \/ i >= maxRetries)
                 /\ (pc = "done" => err = NoErr) )

\* C10: the MaxRetries field of the client's options keeps the value it was
\* constructed with, through every call of Embed, MultimodalEmbed and Rerank.
C10_ConfigUnchanged == optsMaxRetries = configured

\* C11: a returned call with no error holds the decoding of the body of its
\* successful attempt, which is its last one; a returned call with an error
\* has a response no attempt has written.
C11_AllOrNothing ==
    /\ (pc = "done" /\ err = NoErr)
          => ( /\ Len(hist) >= 1
               /\ Below400(Len(hist)) /\ hist[Len(hist)].json
               /\ respBody = UnmarshalResp(outcome.body, ZeroResp).value )
    /\ (pc = "done" /\ err # NoErr) => respBody = ZeroResp

\* C14: every request handed to the transport, first attempt or retry,
\* carries Authorization "BEARER " followed by opts.Key if that is set and by
\* the value of VOYAGE_API_KEY otherwise.
C14_BearerOnEveryRequest ==
    \A k \in 1 .. Len(hist) :
        hist[k].auth = "BEARER " \o (IF optsKey # "" THEN optsKey ELSE envKey)

C14_Witness ==
    /\ optsKey = "" /\ envKey = "dummy_key" /\ Len(hist) = 2
    /\ hist[1].auth = "BEARER dummy_key" /\ hist[2].auth = "BEARER dummy_key"

\* An Embed call with MaxRetries = N >= 1 has returned after N attempts that
\* were all answered 500.
ExhaustedBy500 ==
    /\ pc = "done" /\ op = "Embed" /\ configured >= 1
    /\ AllAnswered(500) /\ attempts = configured

C16_ClassificationIgnoresBody ==
    /\ (outcome.fail = "none" /\ outcome.status >= 400)
          => attemptErr.kind \in {"APIError", "voyage"}
    /\ \A k \in 1 .. Len(hist) :
          (hist[k].status = 429 /\ hist[k].complete /\ k < maxRetries)
             => (k < Len(hist) \/ pc = "loop")

\* The message handleAPIError gives a status.
TextOf(status) ==
    CASE status = 400 -> "bad request"
      [] status = 401 -> "unauthorized"
      [] status = 422 -> "Malformed Request"
      [] status = 429 -> "Rate Limit Reached"
      [] OTHER -> "Server Error"

\* C17: a call ended by an attempt answered 400, 401 or 422 returns the
\* descriptive error of the classifier for that status.
C17_DescriptiveError ==
    (pc = "done" /\ Len(hist) >= 1
       /\ hist[Len(hist)].status \in NonRetryable /\ hist[Len(hist)].complete)
        => (err.kind = "voyage" /\ err.text = TextOf(hist[Len(hist)].status))

\* C18: a call whose attempts were all answered with retryable statuses until
\* none was left returns the classifier's error for the status of the last
\* attempt.
C18_LastErrorWins ==
    (pc = "done" /\ attempts = Len(hist) /\ Len(hist) = maxRetries /\ maxRetries >= 1
       /\ \A k \in 1 .. Len(hist) :
            hist[k].status >= 400 /\ hist[k].status \notin NonRetryable /\ hist[k].complete)
        => (err.kind = "voyage" /\ err.text = TextOf(hist[Len(hist)].status))

\* C20: every response body obtained from the transport has been read and
\* closed by the attempt that obtained it.
C20_BodiesReadAndClosed ==
    bodies.read = bodies.opened /\ bodies.closed = bodies.opened

\* The optional fields of the request a method builds: the field of the
\* options, of the request, its type and its key in the body.
OptionalFields(kind) ==
    CASE kind = "Embed" ->
           {[field |-> "InputType", type |-> "string", key |-> "input_type"],
            [field |-> "Truncation", type |-> "bool", key |-> "truncation"],
            [field |-> "OutputDimension", type |-> "int", key |-> "output_dimension"],
            [field |-> "OutputDType", type |-> "string", key |-> "output_dtype"],
            [field |-> "EncodingFormat", type |-> "string", key |-> "encoding_format"]}
      [] kind = "MultimodalEmbed" ->
           {[field |-> "InputType", type |-> "string", key |-> "input_type"],
            [field |-> "Truncation", type |-> "bool", key |-> "truncation"],
            [field |-> "OuputEncoding", type |-> "string", key |-> "output_encoding"]}
      [] kind = "Rerank" ->
           {[field |-> "TopK", type |-> "int", key |-> "top_k"],
            [field |-> "ReturnDocuments", type |-> "bool", key |-> "return_documents"],
            [field |-> "Truncation", type |-> "bool", key |-> "truncation"]}
      [] OTHER -> {}

\* The caller passed options and set this field in them.
PresentInOpts(f) == ~wOpts.nil /\ ~wOpts.v[f.field].nil

\* The falsy value of a field's type, and its JSON literal.
Falsy(type, x) ==
    CASE type = "bool" -> x = FALSE
      [] type = "int" -> x = 0
      [] OTHER -> x = ""

FalsyLiteral(type) ==
    CASE type = "bool" -> "false"
      [] type = "int" -> "0"
      [] OTHER -> "\"\""

\* C12: for each of the three requests and each optional field, the
\* marshalled body has the field's key if and only if the caller's options
\* set the field; a field set to false, 0 or "" is written as that literal;
\* and the request unmarshalled from the body has the field set exactly when
\* the caller set it, to the same value.
C12_OptionalFieldPresence ==
    wpc \in {"sent", "received"} =>
        \A f \in OptionalFields(wKind) :
            /\ Has(wBody, f.key) <=> PresentInOpts(f)
            /\ (PresentInOpts(f) /\ Falsy(f.type, wOpts.v[f.field].v))
                  => Get(wBody, f.key).raw = FalsyLiteral(f.type)
            /\ wpc = "received" =>
                  /\ wBack[f.field].nil <=> ~PresentInOpts(f)
                  /\ PresentInOpts(f) => wBack[f.field] = wOpts.v[f.field]

C12_Witness ==
    /\ wpc = "received" /\ wKind = "Rerank" /\ ~wOpts.nil
    /\ wOpts.v.TopK = Ptr(0)
    /\ wOpts.v.ReturnDocuments = Ptr(FALSE)
    /\ wOpts.v.Truncation.nil
    /\ Get(wBody, "top_k").raw = "0"
    /\ Get(wBody, "return_documents").raw = "false"
    /\ ~Has(wBody, "truncation")
    /\ wBack.ReturnDocuments = Ptr(FALSE) /\ wBack.Truncation.nil

\* C13: a content item made by Multimodal from an inline base64 image comes
\* back from marshal and unmarshal equal to the original, with type
\* "image_base64" and the data URL unchanged, for every data URL GetBase64
\* makes.
C13_InlineImageRoundTrip ==
    (wpc = "received" /\ wKind = "MultimodalEmbed" /\ wValue.type = "imageBase64") =>
        /\ wBack.Inputs[1].Content[1] = wReq.Inputs[1].Content[1]
        /\ wBack.Inputs[1].Content[1].Type = "image_base64"
        /\ wBack.Inputs[1].Content[1].ImageBase64 = wValue.s

C13_Witness ==
    /\ wpc = "received" /\ wKind = "MultimodalEmbed"
    /\ wValue = [type |-> "imageBase64", s |-> "data:image/png;base64,R0lG+/8="]
    /\ Get(Get(Get(wBody, "inputs").elems[1], "content").elems[1], "image_base64").raw
          = "\"data:image/png;base64,R0lG+/8=\""
    /\ wBack.Inputs[1].Content[1].ImageBase64 = "data:image/png;base64,R0lG+/8="

\* Two calls are at conflicting accesses of c.opts.MaxRetries with nothing
\* ordering them: one is about to write the field, the other about to read
\* or write it.
Racing ==
    \E a, b \in Callers :
        /\ a # b
        /\ callPc[a] \in WritePcs
        /\ callPc[b] \in WritePcs \cup ReadPcs

\* C19: with two or more calls in flight on a client built with
\* MaxRetries = 0, no call writes the shared MaxRetries field while another
\* reads or writes it, and every call makes exactly one attempt.
C19_NoRaceOneAttempt ==
    /\ ~Racing
    /\ \A c \in Callers : callPc[c] = "done" => callAttempts[c] = 1

\* The maximum attempt count a configured MaxRetries resolves to.
Resolved(m) == IF m = 0 THEN 1 ELSE m

\* C21: while a call runs and when it has returned, its loop bound is the
\* resolved maximum attempt count (MaxRetries, or 1 when MaxRetries is 0),
\* the same in every state of the call, and no attempt is made beyond it,
\* whatever the attempts meet.
C21_AttemptsBounded ==
    pc # "idle" =>
        /\ maxRetries = Resolved(configured)
        /\ attempts >= 1 => attempts <= Resolved(configured)

C21_Witness ==
    /\ pc = "done" /\ configured = 3 /\ maxRetries = 3 /\ attempts = 3
    /\ Len(hist) = 3 /\ hist[1].status = 429 /\ hist[2].status = 500
    /\ hist[3].status = 0

\* C22: whatever integer MaxRetries was configured, the loop runs with a
\* bound of at least 1, and a call that returns no error has made an attempt
\* that succeeded (status below 400, body decoded).
C22_AtLeastOneAttempt ==
    /\ pc # "idle" => maxRetries >= 1
    /\ (pc = "done" /\ err = NoErr)
          => \E k \in 1 .. Len(hist) : Below400(k) /\ hist[k].json

\* C24: an attempt answered with a status below 400, 2xx or not, and a body
\* that deserializes ends without error and without the classifier being
\* asked, the response holding what the body decodes to; an attempt ends
\* with an API error, or is classified, only for a status of 400 or above.
C24_Below400IsSuccess ==
    /\ (outcome.fail = "none" /\ outcome.status < 400
          /\ outcome.body.json /\ outcome.body.typed)
          => ( /\ attemptErr = NoErr
               /\ verdict = NoVerdict
               /\ outcome.body.payload # "" => respBody = outcome.body.payload
               /\ impl = "client.go" => (pc = "done" /\ err = NoErr) )
    /\ (attemptErr.kind \in {"APIError", "voyage"} \/ verdict.status # 0)
          => outcome.status >= 400

C24_Witness ==
    /\ impl = "client.go" /\ pc = "done" /\ err = NoErr
    /\ Len(hist) = 2 /\ hist[1].status = 500 /\ hist[2].status = 304
    /\ outcome.status = 304 /\ outcome.body.payload = "embB" /\ respBody = "embB"

\* C26: every attempt of a call sends the same request: a POST to the base
\* URL followed by the path of the call's method, with the same serialized
\* body as the first attempt.
C26_IdenticalAttempts ==
    \A k \in 1 .. Len(hist) :
        /\ hist[k].request.method = "POST"
        /\ hist[k].request.url =
              "https://api.voyageai.com/v1"
                 \o (CASE op = "Embed" -> "/embeddings"
                       [] op = "MultimodalEmbed" -> "/multimodalembeddings"
                       [] op = "Rerank" -> "/rerank"
                       [] OTHER -> "")
        /\ hist[k].request.body = hist[1].request.body
        /\ hist[k].request = hist[1].request

C26_Witness ==
    /\ op = "MultimodalEmbed" /\ Len(hist) = 3
    /\ hist[1].status = 429 /\ hist[2].status = 500 /\ hist[3].status = 200
    /\ hist[3].request.method = "POST"
    /\ hist[3].request.url = "https://api.voyageai.com/v1/multimodalembeddings"
    /\ hist[3].request = hist[1].request
    /\ Has(hist[3].request.body, "inputs")

\* The payload fields of a MultimodalInput that hold something.
Populated(m) == {f \in {"Text", "ImageBase64", "ImageURL"} : m[f] # ""}

\* The payload field a type discriminator names.
FieldNamed(type) ==
    CASE type = "text" -> {"Text"}
      [] type = "image_base64" -> {"ImageBase64"}
      [] type = "image_url" -> {"ImageURL"}
      [] OTHER -> {}

\* The discriminator and the payload field of each type Multimodal knows.
Discriminator(t) ==
    CASE t = "text" -> "text"
      [] t = "imageBase64" -> "image_base64"
      [] t = "imageURL" -> "image_url"
      [] OTHER -> ""

\* The item the caller made with Multimodal(wValue).
Item == wReq.Inputs[1].Content[1]

\* C25: the item Multimodal(v) returns has exactly one of the payloads text,
\* image_base64, image_url populated and its type names that payload, for
\* every v.
C25_ExactlyOneVariant ==
    wKind = "MultimodalEmbed" =>
        /\ Cardinality(Populated(Item)) = 1
        /\ Populated(Item) = FieldNamed(Item.Type)

\* C25 as amended: for a non-empty v of type text, imageBase64 or imageURL
\* the item has exactly the payload of that type populated, holding v, and
\* its type names it; for an empty string of these types the type is set and
\* no payload is populated; for a v of any other type the item is empty.
C25_VariantByArgument ==
    wKind = "MultimodalEmbed" =>
        /\ (wValue.type # "other" /\ wValue.s # "")
              => ( /\ Item.Type = Discriminator(wValue.type)
                   /\ Populated(Item) = FieldNamed(Item.Type)
                   /\ Cardinality(Populated(Item)) = 1
                   /\ \A f \in Populated(Item) : Item[f] = wValue.s )
        /\ (wValue.type # "other" /\ wValue.s = "")
              => (Item.Type = Discriminator(wValue.type) /\ Populated(Item) = {})
        /\ wValue.type = "other"
              => (Item.Type = "" /\ Populated(Item) = {})

C25_Witness ==
    /\ wKind = "MultimodalEmbed" /\ wpc = "built"
    /\ wValue = [type |-> "imageURL", s |-> "https://h/i.png?w=1&h=2"]
    /\ Item.Type = "image_url" /\ Item.ImageURL = "https://h/i.png?w=1&h=2"
    /\ Item.Text = "" /\ Item.ImageBase64 = ""

\* C23: a call that has entered the retry loop returns, whatever the
\* endpoint answers and however many retryable statuses it keeps sending,
\* provided every transport invocation returns.
C23_Terminates == (pc = "loop") ~> (pc = "done")

C23_Witness ==
    /\ pc = "done" /\ configured = 3 /\ attempts = 3 /\ Len(hist) = 3
    /\ \A k \in 1 .. 3 : hist[k].status \in {429, 500} /\ hist[k].complete

====
